---------------------------- MODULE Spec2Model ----------------------------
(***************************************************************************)
(* A model of get-details: the attribute parser, the registry adapters,    *)
(* the report renderer and the page controller of the attribute-driven     *)
(* build (src/unnamed/part_000), with the parts of src/es.js and           *)
(* src/index.js that differ from it.                                       *)
(*                                                                         *)
(* JavaScript strings are sequences of one-character strings, so that      *)
(* split, trim, match and replace are computed character by character.     *)
(* A JavaScript value is a record [t, s, n]: a string (t = "str"), a       *)
(* number (t = "num") or undefined (t = "undef").                          *)
(***************************************************************************)
EXTENDS Integers, Sequences, FiniteSets, TLC

VARIABLES
  \* parse on its own: the four fields of an attribute and what parse yields
  \* for the comma form and for the brace form built from them
  attrFields, parsedComma, parsedBrace,
  \* parse, then getReport: a template, a metadata record, the descriptor
  \* parsed from the attribute that carries the template, and the report
  template, metadata, descriptor, report,
  \* the page: its elements, and the state of init and of each pipeline
  page, cachedElements, innerHTML, dataSetDetails, pc, locals, held,
  settled, wrapper, initPromise, requests, received, hung, writes, writer,
  \* caught[e]: the catch block of the adapter that e's pipeline called ran
  caught,
  \* a call of the ES module's main: its options, where the call stands, the
  \* locals of its action, the promise it returned, whether elTmp is in the
  \* document, the requests issued and the body of GitLab's first answer
  options, esPc, esLocals, mainPromise, appended, esRequests, esHeld

parseVars == <<attrFields, parsedComma, parsedBrace>>
reportVars == <<template, metadata, descriptor, report>>
pageVars ==
  <<page, cachedElements, innerHTML, dataSetDetails, pc, locals, held,
    settled, wrapper, initPromise, requests, received, hung, writes, writer,
    caught>>
esVars == <<options, esPc, esLocals, mainPromise, appended, esRequests, esHeld>>
vars == <<parseVars, reportVars, pageVars, esVars>>

(***************************************************************************)
(* JavaScript values                                                       *)
(***************************************************************************)
Str(s) == [t |-> "str", s |-> s, n |-> 0]
Num(n) == [t |-> "num", s |-> <<>>, n |-> n]
Undef == [t |-> "undef", s |-> <<>>, n |-> 0]

\* ToBoolean: '', 0 and undefined are falsy.
Truthy(v) ==
  CASE v.t = "str" -> v.s /= <<>>
    [] v.t = "num" -> v.n /= 0
    [] OTHER -> FALSE

\* a || b
OrElse(a, b) == IF Truthy(a) THEN a ELSE b

Digit(d) == <<"0", "1", "2", "3", "4", "5", "6", "7", "8", "9">>[d + 1]

RECURSIVE Digits(_)
Digits(n) == IF n < 10 THEN <<Digit(n)>> ELSE Digits(n \div 10) \o <<Digit(n % 10)>>

\* ToString, as String.prototype.replace applies it to its replacement.
ToStr(v) ==
  CASE v.t = "str" -> v.s
    [] v.t = "num" -> Digits(v.n)
    [] OTHER -> <<"u", "n", "d", "e", "f", "i", "n", "e", "d">>

(***************************************************************************)
(* String primitives                                                       *)
(***************************************************************************)
\* The white space of \s and of trim() that the model's inputs use.
WhiteSpace == {" ", "\t", "\n"}

UpperCase == <<"A", "B", "C", "D", "E", "F", "G", "H", "I", "J", "K", "L", "M",
               "N", "O", "P", "Q", "R", "S", "T", "U", "V", "W", "X", "Y", "Z">>
LowerCase == <<"a", "b", "c", "d", "e", "f", "g", "h", "i", "j", "k", "l", "m",
               "n", "o", "p", "q", "r", "s", "t", "u", "v", "w", "x", "y", "z">>

LowerOf ==
  [c \in {UpperCase[i] : i \in 1..26} |->
     LowerCase[CHOOSE i \in 1..26 : UpperCase[i] = c]]

ToLowerChar(c) == IF c \in DOMAIN LowerOf THEN LowerOf[c] ELSE c

toLowerCase(s) == [i \in 1..Len(s) |-> ToLowerChar(s[i])]

RECURSIVE TrimStart(_)
TrimStart(s) ==
  IF s /= <<>> /\ Head(s) \in WhiteSpace THEN TrimStart(Tail(s)) ELSE s

RECURSIVE TrimEnd(_)
TrimEnd(s) ==
  IF s /= <<>> /\ s[Len(s)] \in WhiteSpace
  THEN TrimEnd(SubSeq(s, 1, Len(s) - 1))
  ELSE s

trim(s) == TrimEnd(TrimStart(s))

\* indexOf(c), 1-based; 0 when c does not occur.
RECURSIVE IndexFrom(_, _, _)
IndexFrom(s, c, i) ==
  IF i > Len(s) THEN 0 ELSE IF s[i] = c THEN i ELSE IndexFrom(s, c, i + 1)

indexOf(s, c) == IndexFrom(s, c, 1)

\* split(','): the fields between the separators, at least one.
RECURSIVE split(_, _)
split(s, sep) ==
  LET i == indexOf(s, sep)
  IN IF i = 0 THEN <<s>>
     ELSE <<SubSeq(s, 1, i - 1)>> \o split(SubSeq(s, i + 1, Len(s)), sep)

\* Array destructuring: the k-th field, undefined past the end.
Field(fields, k) == IF k <= Len(fields) THEN Str(trim(fields[k])) ELSE Undef

RECURSIVE Concat(_)
Concat(ss) == IF ss = <<>> THEN <<>> ELSE Head(ss) \o Concat(Tail(ss))

(***************************************************************************)
(* parse (src/unnamed/part_000)                                            *)
(***************************************************************************)
PackageRequired == "Package name is required in data-get-details attribute"

\* What a call of parse yields: a descriptor, undefined, or a thrown Error.
Descriptor(pkg, target, source, format) ==
  [kind |-> "descriptor", msg |-> "", pkg |-> pkg, target |-> target,
   source |-> source, format |-> format]
Returned(v) ==
  [kind |-> "undefined", msg |-> "", pkg |-> v, target |-> v, source |-> v,
   format |-> v]
Thrown(m) ==
  [kind |-> "throw", msg |-> m, pkg |-> Undef, target |-> Undef,
   source |-> Undef, format |-> Undef]

\* attrValue.match(/{([^}]*)}/): the first '{' and the first '}' after it.
OpenBrace(s) == indexOf(s, "{")
CloseBrace(s) ==
  LET o == OpenBrace(s)
      r == indexOf(SubSeq(s, o + 1, Len(s)), "}")
  IN IF o = 0 \/ r = 0 THEN 0 ELSE o + r
formatMatch(s) == CloseBrace(s) /= 0
formatGroup(s) == SubSeq(s, OpenBrace(s) + 1, CloseBrace(s) - 1)

NpmSource == Str(<<"n", "p", "m">>)

\* parse of the attribute-driven build. attrValue is a JavaScript value: the
\* attribute's string, or undefined for a missing one.
parse(attrValue) ==
  IF ~Truthy(attrValue) THEN Returned(Undef)
  ELSE IF ~formatMatch(attrValue.s)
  THEN LET fields == split(attrValue.s, ",")
           pkg == Field(fields, 1)
       IN IF ~Truthy(pkg) THEN Thrown(PackageRequired)
          ELSE Descriptor(pkg, Field(fields, 2),
                          OrElse(Field(fields, 3), NpmSource), Undef)
  ELSE LET configPart == trim(SubSeq(attrValue.s, 1, OpenBrace(attrValue.s) - 1))
           format == Str(trim(formatGroup(attrValue.s)))
           fields == split(configPart, ",")
           pkg == Field(fields, 1)
       IN IF ~Truthy(pkg) THEN Thrown(PackageRequired)
          ELSE Descriptor(pkg, Field(fields, 2),
                          OrElse(Field(fields, 3), NpmSource),
                          OrElse(format, Undef))

(***************************************************************************)
(* getReport (src/unnamed/part_000; src/es.js has the same body)           *)
(***************************************************************************)
\* new Date().getFullYear(), a value of the environment.
CurrentYear == 2025
\* The one character of '%copy'.
CopySign == <<"(c)">>

\* The metadata record's fields that getReport reads; an adapter leaves the
\* ones its registry does not give undefined.
NoData ==
  [version |-> Undef, name |-> Undef, description |-> Undef,
   homepage |-> Undef, author |-> Undef, license |-> Undef,
   lastUpdate |-> Undef, stars |-> Undef, forks |-> Undef,
   language |-> Undef, repository |-> Undef, maintainers |-> Undef,
   downloadsLastMonth |-> Undef, releaseDate |-> Undef,
   releaseNotes |-> Undef, owner |-> Undef, requiresPython |-> Undef]

\* What an adapter resolves with: a metadata record, or undefined.
Data(d) == [defined |-> TRUE, d |-> d]
NoResult == [defined |-> FALSE, d |-> NoData]

Key(name) == <<"%">> \o name
Empty == Str(<<>>)

\* The variables object, in its insertion order.
variables(d) ==
  << <<Key(<<"y", "e", "a", "r">>), Num(CurrentYear)>>,
     <<Key(<<"c", "o", "p", "y">>), Str(CopySign)>>,
     <<Key(<<"n", "a", "m", "e">>), OrElse(d.name, Empty)>>,
     <<Key(<<"v", "e", "r", "s", "i", "o", "n">>), OrElse(d.version, Empty)>>,
     <<Key(<<"d", "e", "s", "c", "r", "i", "p", "t", "i", "o", "n">>),
       OrElse(d.description, Empty)>>,
     <<Key(<<"h", "o", "m", "e", "p", "a", "g", "e">>), OrElse(d.homepage, Empty)>>,
     <<Key(<<"a", "u", "t", "h", "o", "r">>), OrElse(d.author, Empty)>>,
     <<Key(<<"l", "i", "c", "e", "n", "s", "e">>), OrElse(d.license, Empty)>>,
     <<Key(<<"l", "a", "s", "t", "-", "u", "p", "d", "a", "t", "e">>),
       OrElse(d.lastUpdate, Empty)>>,
     <<Key(<<"s", "t", "a", "r", "s">>), OrElse(d.stars, Empty)>>,
     <<Key(<<"f", "o", "r", "k", "s">>), OrElse(d.forks, Empty)>>,
     <<Key(<<"l", "a", "n", "g", "u", "a", "g", "e">>), OrElse(d.language, Empty)>>,
     <<Key(<<"r", "e", "p", "o", "s", "i", "t", "o", "r", "y">>),
       OrElse(d.repository, Empty)>>,
     <<Key(<<"m", "a", "i", "n", "t", "a", "i", "n", "e", "r", "s">>),
       OrElse(d.maintainers, Empty)>>,
     <<Key(<<"d", "o", "w", "n", "l", "o", "a", "d", "s">>),
       OrElse(d.downloadsLastMonth, Empty)>>,
     <<Key(<<"r", "e", "l", "e", "a", "s", "e", "-", "d", "a", "t", "e">>),
       OrElse(d.releaseDate, Empty)>>,
     <<Key(<<"r", "e", "l", "e", "a", "s", "e", "-", "n", "o", "t", "e", "s">>),
       OrElse(d.releaseNotes, Empty)>>,
     <<Key(<<"o", "w", "n", "e", "r">>), OrElse(d.owner, Empty)>>,
     <<Key(<<"r", "e", "q", "u", "i", "r", "e", "s">>),
       OrElse(d.requiresPython, Empty)>> >>

\* new RegExp(key, 'gi') matches at position i.
MatchAt(s, i, key) ==
  /\ i + Len(key) - 1 <= Len(s)
  /\ \A j \in 1..Len(key) : ToLowerChar(s[i + j - 1]) = ToLowerChar(key[j])

\* The replacement string's patterns $$ and $& (there are no groups; the
\* patterns that copy the text around the match are not among the inputs).
RECURSIVE Expand(_, _, _, _)
Expand(val, s, i, n) ==
  IF val = <<>> THEN <<>>
  ELSE IF Head(val) = "$" /\ Len(val) >= 2 /\ val[2] \in {"$", "&"}
  THEN (IF val[2] = "$" THEN <<"$">> ELSE SubSeq(s, i, i + n - 1))
       \o Expand(SubSeq(val, 3, Len(val)), s, i, n)
  ELSE <<Head(val)>> \o Expand(Tail(val), s, i, n)

\* result.replace(regex, value) from position i on.
RECURSIVE ReplaceFrom(_, _, _, _)
ReplaceFrom(s, i, key, val) ==
  IF i > Len(s) THEN <<>>
  ELSE IF MatchAt(s, i, key)
  THEN Expand(val, s, i, Len(key)) \o ReplaceFrom(s, i + Len(key), key, val)
  ELSE <<s[i]>> \o ReplaceFrom(s, i + 1, key, val)

\* The for loop over Object.entries(variables): one pass per key, in order.
RECURSIVE Substitute(_, _, _)
Substitute(s, entries, k) ==
  IF k > Len(entries) THEN s
  ELSE Substitute(ReplaceFrom(s, 1, entries[k][1], ToStr(entries[k][2])),
                  entries, k + 1)

\* The end of the run of characters of set cs that starts at i (i - 1 if none).
RECURSIVE RunEnd(_, _, _)
RunEnd(s, i, cs) ==
  IF i <= Len(s) /\ s[i] \in cs THEN RunEnd(s, i + 1, cs) ELSE i - 1

\* .replace(/\s+/g, ' ')
RECURSIVE CollapseSpaces(_, _)
CollapseSpaces(s, i) ==
  IF i > Len(s) THEN <<>>
  ELSE IF s[i] \in WhiteSpace
  THEN <<" ">> \o CollapseSpaces(s, RunEnd(s, i, WhiteSpace) + 1)
  ELSE <<s[i]>> \o CollapseSpaces(s, i + 1)

\* .replace(/\s+,/g, ',')
RECURSIVE SpacesBeforeComma(_, _)
SpacesBeforeComma(s, i) ==
  IF i > Len(s) THEN <<>>
  ELSE LET e == RunEnd(s, i, WhiteSpace)
       IN IF e >= i /\ e + 1 <= Len(s) /\ s[e + 1] = ","
          THEN <<",">> \o SpacesBeforeComma(s, e + 2)
          ELSE IF e >= i
          THEN SubSeq(s, i, e) \o SpacesBeforeComma(s, e + 1)
          ELSE <<s[i]>> \o SpacesBeforeComma(s, i + 1)

\* .replace(/,+/g, ',')
RECURSIVE CollapseCommas(_, _)
CollapseCommas(s, i) ==
  IF i > Len(s) THEN <<>>
  ELSE IF s[i] = ","
  THEN <<",">> \o CollapseCommas(s, RunEnd(s, i, {","}) + 1)
  ELSE <<s[i]>> \o CollapseCommas(s, i + 1)

\* .replace(/^,+|,+$/g, '')
RECURSIVE StripTrailingCommas(_)
StripTrailingCommas(s) ==
  IF s /= <<>> /\ s[Len(s)] = ","
  THEN StripTrailingCommas(SubSeq(s, 1, Len(s) - 1))
  ELSE s
StripCommas(s) ==
  StripTrailingCommas(SubSeq(s, RunEnd(s, 1, {","}) + 1, Len(s)))

\* .replace(/\(\s*\)/g, '')
RECURSIVE EmptyParentheses(_, _)
EmptyParentheses(s, i) ==
  IF i > Len(s) THEN <<>>
  ELSE LET e == RunEnd(s, i + 1, WhiteSpace)
       IN IF s[i] = "(" /\ e + 1 <= Len(s) /\ s[e + 1] = ")"
          THEN EmptyParentheses(s, e + 2)
          ELSE <<s[i]>> \o EmptyParentheses(s, i + 1)

\* The chain of replacements after the substitution, in the code's order.
Cleanup(s) ==
  EmptyParentheses(
    StripCommas(trim(CollapseCommas(SpacesBeforeComma(CollapseSpaces(s, 1), 1), 1))),
    1)

\* What a call of getReport yields: a string, or a thrown TypeError when data
\* is undefined (data.version, data.name).
Report(s) == [kind |-> "string", s |-> s]
TypeError == [kind |-> "throw", s |-> <<>>]

getReport(data, format) ==
  IF ~data.defined THEN TypeError
  ELSE IF ~Truthy(format) THEN Report(ToStr(OrElse(data.d.version, Empty)))
  ELSE Report(Cleanup(Substitute(format.s, variables(data.d), 1)))

(***************************************************************************)
(* Inputs                                                                  *)
(***************************************************************************)
\* The longest attribute has four comma fields.
MaxFields == 4
\* The most pieces a generated template is made of.
MaxPieces == 3

FlaskName == <<"f", "l", "a", "s", "k">>
PypiName == <<"p", "y", "p", "i">>
GithubName == <<"g", "i", "t", "h", "u", "b">>
SvnName == <<"s", "v", "n">>
Version230 == <<"2", ".", "3", ".", "0">>
Version130 == <<"1", ".", "3", ".", "0">>

KeyName == Key(<<"n", "a", "m", "e">>)
KeyVersion == Key(<<"v", "e", "r", "s", "i", "o", "n">>)
KeyLicense == Key(<<"l", "i", "c", "e", "n", "s", "e">>)
KeyOwner == Key(<<"o", "w", "n", "e", "r">>)
KeyRequires == Key(<<"r", "e", "q", "u", "i", "r", "e", "s">>)
KeyStars == Key(<<"s", "t", "a", "r", "s">>)
KeyForks == Key(<<"f", "o", "r", "k", "s">>)
KeyDownloads == Key(<<"d", "o", "w", "n", "l", "o", "a", "d", "s">>)
KeyDescription == Key(<<"d", "e", "s", "c", "r", "i", "p", "t", "i", "o", "n">>)
\* '%foo', which is no placeholder.
KeyFoo == Key(<<"f", "o", "o">>)

\* '%name %version (%license)'
TemplateC == <<KeyName, <<" ">>, KeyVersion, <<" ">>, <<"(">>, KeyLicense, <<")">>>>
\* '%owner, %requires, (%license)'
TemplateCleanup ==
  <<KeyOwner, <<",">>, <<" ">>, KeyRequires, <<",">>, <<" ">>, <<"(">>, KeyLicense,
    <<")">>>>
\* '%stars/%forks/%downloads'
TemplateCounts == <<KeyStars, <<"/">>, KeyForks, <<"/">>, KeyDownloads>>

\* The pieces generated templates are made of.
Pieces ==
  {KeyOwner, KeyLicense, KeyStars, KeyVersion, <<",">>, <<" ">>,
   <<"(">> \o KeyLicense \o <<")">>, <<"x">>, KeyFoo}

RECURSIVE SeqsUpTo(_, _)
SeqsUpTo(S, n) ==
  IF n = 0 THEN {<<>>}
  ELSE LET shorter == SeqsUpTo(S, n - 1)
       IN shorter \cup {Append(q, x) : q \in shorter, x \in S}

\* '%name', '%description' and '%description by %owner'
TemplatesOfValues ==
  {<<KeyName>>, <<KeyDescription>>,
   <<KeyDescription, <<" ">>, <<"b", "y">>, <<" ">>, KeyOwner>>}

Templates ==
  SeqsUpTo(Pieces, MaxPieces) \cup {TemplateC, TemplateCleanup, TemplateCounts}
    \cup TemplatesOfValues

\* Metadata records: scenario C's, one with every field empty, one whose
\* counts are 0, and a repository's.
DataC ==
  [NoData EXCEPT !.name = Str(FlaskName), !.version = Str(Version230),
                 !.license = Empty]
DataEmpty ==
  [NoData EXCEPT !.version = Empty, !.license = Empty, !.owner = Empty,
                 !.requiresPython = Empty]
DataZero ==
  [NoData EXCEPT !.version = Str(Version130), !.license = Str(<<"M", "I", "T">>),
                 !.owner = Str(<<"o">>), !.stars = Num(0), !.forks = Num(0),
                 !.downloadsLastMonth = Num(0)]
DataRepo ==
  [NoData EXCEPT !.version = Str(Version130), !.license = Empty,
                 !.owner = Str(<<"o">>), !.stars = Num(12), !.forks = Num(3),
                 !.downloadsLastMonth = Num(40)]
\* A record whose name and description hold the text of a placeholder.
DataNested ==
  [NoData EXCEPT !.name = Str(KeyVersion), !.version = Str(Version130),
                 !.description = Str(<<"s", "e", "e", " ">> \o KeyVersion),
                 !.license = Str(<<"M", "I", "T">>), !.owner = Str(<<"o">>)]
DataSet == {DataC, DataEmpty, DataZero, DataRepo, DataNested}

PackageFields == {<<>>, <<" ">>, <<"p">>, <<" ", "p", " ">>, FlaskName}
TargetFields == {<<>>, <<"#", "t">>, <<" ">>}
SourceFields == {<<>>, PypiName, SvnName}
FormatFields == {<<>>, KeyVersion, <<" ">> \o KeyVersion, Concat(TemplateC)}

\* 'p,t,s,f' cut to its first n fields, and 'p,t,s,{f}'.
CommaForm(f) ==
  f.p \o (IF f.n >= 2 THEN <<",">> \o f.t ELSE <<>>)
      \o (IF f.n >= 3 THEN <<",">> \o f.s ELSE <<>>)
      \o (IF f.n >= 4 THEN <<",">> \o f.f ELSE <<>>)
BraceForm(f) == f.p \o <<",">> \o f.t \o <<",">> \o f.s \o <<",", "{">> \o f.f \o <<"}">>

NotRun ==
  [kind |-> "notrun", msg |-> "", pkg |-> Undef, target |-> Undef,
   source |-> Undef, format |-> Undef]
NotRendered == [kind |-> "notrun", s |-> <<>>]
(***************************************************************************)
(* The registries: what a lookup can answer                                *)
(***************************************************************************)
InvalidDate == <<"I", "n", "v", "a", "l", "i", "d", " ", "D", "a", "t", "e">>
SomeDate == <<"1", "/", "9", "/", "2", "0", "2", "5">>
Mit == <<"M", "I", "T">>

\* The version each registry holds of a package.
VersionOf(pkg) == IF pkg = <<"p">> THEN Version130 ELSE Version230

\* A response: ok with a decoded body, a non-success status, a rejected
\* fetch, or a body response.json() cannot decode.
Ok(body) == [status |-> "ok", body |-> body]
Failures == {[status |-> st, body |-> <<>>] : st \in {"http", "network", "json"}}
\* A success status whose body decodes to null: reading a field of it throws.
NullBody == [status |-> "null", body |-> <<>>]
\* The decoded body is null.
IsNull(body) == DOMAIN body = {}

NpmBodies(pkg) ==
  {[version |-> Str(VersionOf(pkg)), name |-> Str(pkg), description |-> Undef,
    author |-> Undef, license |-> lic, homepage |-> Undef] : lic \in {Str(Mit)}}
PyPIBodies(pkg) ==
  {[version |-> Str(VersionOf(pkg)), name |-> Str(pkg), summary |-> Undef,
    author |-> Undef, license |-> lic, requires_python |-> Undef,
    downloads_last_month |-> Undef] : lic \in {Str(Mit), Empty}}
ReleaseBodies(pkg) ==
  {[tag_name |-> Str(tag), body |-> Undef, published_at |-> Str(SomeDate)] :
     tag \in {<<"v">> \o VersionOf(pkg), VersionOf(pkg)}}
RepoBodies(pkg) ==
  {[name |-> Str(pkg), description |-> Undef, owner_login |-> Str(<<"o">>),
    stargazers_count |-> Num(stars), forks_count |-> Num(0),
    license_name |-> Undef, language |-> Undef, updated_at |-> Str(SomeDate)] :
     stars \in {12}}

\* new Date(x).toLocaleDateString()
toLocaleDateString(x) == IF Truthy(x) THEN Str(SomeDate) ELSE Str(InvalidDate)

(***************************************************************************)
(* The adapters (src/unnamed/part_000)                                     *)
(***************************************************************************)
\* An npm adapter whose catch returns an empty record.
fetchNpmDataOrEmpty(resp) ==
  IF resp.status /= "ok" THEN Data(NoData)
  ELSE Data([NoData EXCEPT !.version = resp.body.version, !.name = resp.body.name])

\* fetchNpmData, from its response on.
fetchNpmData(resp) ==
  IF resp.status /= "ok" THEN NoResult
  ELSE Data([NoData EXCEPT
          !.version = resp.body.version,
          !.name = resp.body.name,
          !.description = OrElse(resp.body.description, Empty),
          !.author = OrElse(resp.body.author, Empty),
          !.license = OrElse(resp.body.license, Empty),
          !.homepage = OrElse(resp.body.homepage, Empty),
          !.repository = Empty,
          !.lastUpdate = toLocaleDateString(Empty),
          !.maintainers = Empty])

\* fetchPyPIData, from its response on.
fetchPyPIData(resp) ==
  IF resp.status /= "ok" THEN NoResult
  ELSE Data([NoData EXCEPT
          !.version = resp.body.version,
          !.name = resp.body.name,
          !.description = OrElse(resp.body.summary, Empty),
          !.author = OrElse(resp.body.author, Empty),
          !.license = OrElse(resp.body.license, Empty),
          !.homepage = Empty,
          !.repository = Empty,
          !.lastUpdate = toLocaleDateString(Empty),
          !.maintainers = Empty,
          !.requiresPython = OrElse(resp.body.requires_python, Empty),
          !.downloadsLastMonth = OrElse(resp.body.downloads_last_month, Num(0))])

\* A version that is the tag as it stands.
KeepTag(tag) == tag

\* tag_name.startsWith('v') ? tag_name.slice(1) : tag_name
StripV(tag) == IF tag /= <<>> /\ Head(tag) = "v" THEN Tail(tag) ELSE tag

\* fetchGitHubData after its second response: the record built from the
\* release and the repository bodies.
fetchGitHubData(release, resp) ==
  IF resp.status /= "ok" \/ IsNull(release) THEN NoResult
  ELSE Data([NoData EXCEPT
          !.version = Str(StripV(release.tag_name.s)),
          !.name = resp.body.name,
          !.description = OrElse(resp.body.description, Empty),
          !.owner = resp.body.owner_login,
          !.stars = resp.body.stargazers_count,
          !.forks = resp.body.forks_count,
          !.homepage = Empty,
          !.license = OrElse(resp.body.license_name, Empty),
          !.lastUpdate = toLocaleDateString(resp.body.updated_at),
          !.language = OrElse(resp.body.language, Empty),
          !.releaseDate = toLocaleDateString(release.published_at),
          !.releaseNotes = OrElse(release.body, Empty)])

\* A getData whose default case falls back to the npm adapter.
getDataOrNpm(source) ==
  LET src == toLowerCase(source)
  IN CASE src = PypiName -> "pypi"
       [] src = GithubName -> "githubRelease"
       [] OTHER -> "npm"

\* getData's switch on source.toLowerCase(): the adapter it calls, or
\* "unsupported" for the default case, which throws.
getData(source) ==
  LET src == toLowerCase(source)
  IN CASE src = <<"n", "p", "m">> -> "npm"
       [] src = PypiName -> "pypi"
       [] src = GithubName -> "githubRelease"
       [] OTHER -> "unsupported"

\* The states of a pipeline suspended at a fetch.
FetchStates == {"npm", "pypi", "githubRelease", "githubRepo"}
(***************************************************************************)
(* The document                                                            *)
(***************************************************************************)
\* The number of elements of the page.
NumEls == 2
Elems == 1..NumEls

Div == <<"D", "I", "V">>
Script == <<"S", "C", "R", "I", "P", "T">>
PackageVersionId ==
  <<"p", "a", "c", "k", "a", "g", "e", "_", "v", "e", "r", "s", "i", "o", "n">>
CurrentVersionClass ==
  <<"c", "u", "r", "r", "e", "n", "t", "-", "v", "e", "r", "s", "i", "o", "n">>
\* '#package_version, .current-version'
DefaultSelector ==
  <<"#">> \o PackageVersionId \o <<",", " ", ".">> \o CurrentVersionClass

Element(tag, id, cls, attr) == [tagName |-> tag, id |-> id, cls |-> cls, attr |-> attr]

\* The elements a page is made of: sources (with a data-get-details
\* attribute) and plain targets (without).
ElementKinds ==
  { \* <div data-get-details="p">
    Element(Div, <<>>, <<>>, Str(<<"p">>)),
    \* <div id="s">
    Element(Div, <<"s">>, <<>>, Undef),
    \* <p class="current-version">
    Element(<<"P">>, <<>>, CurrentVersionClass, Undef),
    \* <script data-get-details="p">
    Element(Script, <<>>, <<>>, Str(<<"p">>)),
    \* <div data-get-details="p,#s">
    Element(Div, <<>>, <<>>, Str(<<"p", ",", "#", "s">>)),
    \* <div id="s" data-get-details="q">
    Element(Div, <<"s">>, <<>>, Str(<<"q">>)),
    \* <div data-get-details="p,,svn">
    Element(Div, <<>>, <<>>, Str(<<"p", ",", ",">> \o SvnName)),
    \* <script data-get-details="p,,svn">
    Element(Script, <<>>, <<>>, Str(<<"p", ",", ",">> \o SvnName)),
    \* <div data-get-details="">
    Element(Div, <<>>, <<>>, Str(<<>>)),
    \* <div data-get-details=",x,npm">
    Element(Div, <<>>, <<>>, Str(<<",", "x", ",", "n", "p", "m">>)),
    \* <div id="package_version" data-get-details="q,,GitHub,{%name %version}">
    Element(Div, PackageVersionId, <<>>,
            Str(<<"q", ",", ",", "G", "i", "t", "H", "u", "b", ",", "{">>
                \o KeyName \o <<" ">> \o KeyVersion \o <<"}">>)),
    \* <div data-get-details="q,#s,github">
    Element(Div, <<>>, <<>>, Str(<<"q", ",", "#", "s", ",">> \o GithubName)),
    \* <div data-get-details="q,#s,pypi,{%version (%license)}">
    Element(Div, <<>>, <<>>,
            Str(<<"q", ",", "#", "s", ",">> \o PypiName \o <<",", "{">>
                \o KeyVersion \o <<" ", "(">> \o KeyLicense \o <<")", "}">>)) }

\* A simple selector: #id, .class or a tag name.
Matches(el, sel) ==
  IF sel = <<>> THEN FALSE
  ELSE IF Head(sel) = "#" THEN el.id = Tail(sel)
  ELSE IF Head(sel) = "." THEN el.cls = Tail(sel)
  ELSE toLowerCase(el.tagName) = toLowerCase(sel)

\* document.querySelectorAll(sel), sel a comma-separated list of simple
\* selectors.
querySelectorAll(sel) ==
  LET parts == split(sel, ",")
  IN {e \in Elems : \E k \in 1..Len(parts) : Matches(page[e], trim(parts[k]))}

\* document.querySelectorAll('[data-get-details]')
withGetDetails == {e \in Elems : page[e].attr.t = "str"}

(***************************************************************************)
(* action and init (src/unnamed/part_000)                                  *)
(***************************************************************************)
NoTargets == "No target elements found"
Unsupported == "Unsupported source"
CannotDestructure == "TypeError: cannot destructure undefined"
DataUndefined == "TypeError: cannot read properties of undefined"

\* An elTargets without the rule that a non-SCRIPT element with no target
\* is its own target.
elTargetsBySelector(e, d) ==
  IF Truthy(d.target) THEN querySelectorAll(d.target.s)
  ELSE querySelectorAll(DefaultSelector)

\* action's elTargets, for the element e and its descriptor d.
elTargets(e, d) ==
  IF page[e].tagName /= Script /\ ~Truthy(d.target) THEN {e}
  ELSE IF Truthy(d.target) THEN querySelectorAll(d.target.s)
  ELSE querySelectorAll(DefaultSelector)

\* The promise of one call of action: pending, fulfilled or rejected, with
\* the error it threw or logged.
Pending == [state |-> "pending", error |-> ""]
Fulfilled(err) == [state |-> "fulfilled", error |-> err]
Rejected(err) == [state |-> "rejected", error |-> err]

\* action's local variables: the descriptor and elTargets.
Locals(d, ts) == [d |-> d, elTargets |-> ts]
NoLocals == Locals(NotRun, {})

\* Where a call of action stands: its place, its promise and its locals.
Pipeline(at, promise, loc) == [pc |-> at, promise |-> promise, locals |-> loc]

\* An action without the check of elTargets.length.
ResolveUnchecked(e, d, ts) ==
  IF getData(d.source.s) = "unsupported"
  THEN Pipeline("done", Fulfilled(Unsupported), Locals(d, ts))
  ELSE Pipeline(getData(d.source.s), Pending, Locals(d, ts))

\* action from the descriptor on, up to its first suspension.
Resolve(e, d, ts) ==
  IF ts = {} THEN Pipeline("done", Rejected(NoTargets), Locals(d, ts))
  ELSE IF getData(d.source.s) = "unsupported"
  THEN Pipeline("done", Fulfilled(Unsupported), Locals(d, ts))
  ELSE Pipeline(getData(d.source.s), Pending, Locals(d, ts))

\* action on what parse yielded, up to its first suspension: the
\* destructuring of undefined and parse's own error end it at once.
Destructure(e, d) ==
  IF d.kind = "undefined" THEN Pipeline("done", Rejected(CannotDestructure), NoLocals)
  ELSE IF d.kind = "throw" THEN Pipeline("done", Rejected(d.msg), NoLocals)
  ELSE Resolve(e, d, elTargets(e, d))

\* action up to its first suspension.
StartAction(e) == Destructure(e, parse(page[e].attr))

\* A wrapper without the try and catch: map(el => action(el)).
NoCatch(promise) == promise.state

\* init's wrapper around action: try { await action(el) } catch { log }.
Wrapper(promise) == IF promise.state = "pending" THEN "pending" ELSE "fulfilled"

\* Promise.all over the wrappers of the cached elements.
PromiseAll(w, els) ==
  IF \E e \in els : w[e] = "rejected" THEN "rejected"
  ELSE IF \A e \in els : w[e] = "fulfilled" THEN "resolved"
  ELSE "pending"

\* A forEach that does not look at the mark.
EveryTarget(ts) == ts

\* The forEach over elTargets: the targets that get the report.
Unprocessed(ts) == {t \in ts : ~dataSetDetails[t]}

\* Pipelines awaited one after the other, in document order: a response is
\* taken only once every earlier element's pipeline has ended.
AwaitingInOrder(e) ==
  /\ pc[e] \in FetchStates
  /\ ~hung[e]
  /\ \A d \in 1..(e - 1) : pc[d] \notin FetchStates

\* A pipeline suspended at a fetch is resumed by its own response, whatever
\* the other pipelines do: Promise.all runs them side by side.
Awaiting(e) == pc[e] \in FetchStates /\ ~hung[e]

\* The DOMContentLoaded listener: init to its await, that is the
\* synchronous part of every element's action.
Launch(start, w) ==
  /\ pc' = [e \in Elems |-> start[e].pc]
  /\ locals' = [e \in Elems |-> start[e].locals]
  /\ settled' = [e \in Elems |-> start[e].promise]
  /\ requests' = [e \in Elems |-> IF start[e].pc \in FetchStates THEN 1 ELSE 0]
  /\ wrapper' = w
  /\ initPromise' = IF withGetDetails = {} THEN "resolved"
                    ELSE PromiseAll(w, withGetDetails)

DOMContentLoaded ==
  /\ initPromise = "none"
  /\ cachedElements' = withGetDetails
  /\ LET start == [e \in Elems |->
                     IF e \in withGetDetails THEN StartAction(e)
                     ELSE Pipeline("idle", Pending, NoLocals)]
     IN Launch(start, [e \in Elems |->
                         IF e \in withGetDetails THEN Wrapper(start[e].promise)
                         ELSE "none"])
  /\ UNCHANGED <<page, innerHTML, dataSetDetails, held, received, hung, writes, writer,
                 caught>>
  /\ UNCHANGED <<parseVars, reportVars, esVars>>

\* The end of action: the forEach over elTargets writes report rep to the
\* targets ts, or the catch logs error err; the wrapper and init follow.
Settle(e, data, ts, rep, err) ==
  /\ received' = [received EXCEPT ![e] = data]
  /\ innerHTML' = [t \in Elems |-> IF t \in ts THEN rep ELSE innerHTML[t]]
  /\ dataSetDetails' = [t \in Elems |-> t \in ts \/ dataSetDetails[t]]
  /\ writes' = [t \in Elems |-> IF t \in ts THEN writes[t] + 1 ELSE writes[t]]
  /\ writer' = [t \in Elems |-> IF t \in ts THEN e ELSE writer[t]]
  /\ pc' = [pc EXCEPT ![e] = "done"]
  /\ settled' = [settled EXCEPT ![e] = Fulfilled(err)]
  /\ wrapper' = [wrapper EXCEPT ![e] = Wrapper(Fulfilled(err))]
  /\ initPromise' =
       PromiseAll([wrapper EXCEPT ![e] = Wrapper(Fulfilled(err))], cachedElements)
  /\ UNCHANGED <<requests, held, locals>>

\* An action whose catch marks the targets.
ApplyOrMark(e, data, rep) ==
  IF rep.kind = "throw"
  THEN Settle(e, data, Unprocessed(locals[e].elTargets), <<>>, DataUndefined)
  ELSE Settle(e, data, Unprocessed(locals[e].elTargets), rep.s, "")

\* action from getReport on, for the report's result rep.
Apply(e, data, rep) ==
  IF rep.kind = "throw" THEN Settle(e, data, {}, <<>>, DataUndefined)
  ELSE Settle(e, data, Unprocessed(locals[e].elTargets), rep.s, "")

\* action from the adapter's result on.
Finish(e, data) == Apply(e, data, getReport(data, locals[e].d.format))

\* The response to the lookup of fetchNpmData or fetchPyPIData arrives.
Respond(e) ==
  /\ Awaiting(e)
  /\ pc[e] \in {"npm", "pypi"}
  /\ \E resp \in Failures \cup {NullBody} \cup
                 {Ok(b) : b \in IF pc[e] = "npm" THEN NpmBodies(locals[e].d.pkg.s)
                                ELSE PyPIBodies(locals[e].d.pkg.s)} :
       /\ Finish(e, IF pc[e] = "npm" THEN fetchNpmData(resp) ELSE fetchPyPIData(resp))
       /\ caught' = [caught EXCEPT ![e] = resp.status /= "ok"]
  /\ UNCHANGED <<page, cachedElements, hung>>
  /\ UNCHANGED <<parseVars, reportVars, esVars>>

\* The response to fetchGitHubData's release lookup arrives: when it has a
\* success status and a body that decodes, the repository lookup is issued
\* (the body's fields are read only after that lookup); otherwise the catch
\* makes the adapter return undefined.
RespondRelease(e) ==
  /\ Awaiting(e)
  /\ pc[e] = "githubRelease"
  /\ \E resp \in Failures \cup {NullBody} \cup
                 {Ok(b) : b \in ReleaseBodies(locals[e].d.pkg.s)} :
       IF resp.status \in {"ok", "null"}
       THEN /\ held' = [held EXCEPT ![e] = resp.body]
            /\ pc' = [pc EXCEPT ![e] = "githubRepo"]
            /\ requests' = [requests EXCEPT ![e] = @ + 1]
            /\ UNCHANGED <<innerHTML, dataSetDetails, writes, writer, settled,
                           wrapper, initPromise, received, locals, caught>>
       ELSE /\ Finish(e, NoResult)
            /\ caught' = [caught EXCEPT ![e] = TRUE]
  /\ UNCHANGED <<page, cachedElements, hung>>
  /\ UNCHANGED <<parseVars, reportVars, esVars>>

\* The response to fetchGitHubData's repository lookup arrives.
RespondRepo(e) ==
  /\ Awaiting(e)
  /\ pc[e] = "githubRepo"
  /\ \E resp \in Failures \cup {NullBody} \cup
                 {Ok(b) : b \in RepoBodies(locals[e].d.pkg.s)} :
       /\ Finish(e, fetchGitHubData(held[e], resp))
       /\ caught' = [caught EXCEPT ![e] = resp.status /= "ok" \/ IsNull(held[e])]
  /\ UNCHANGED <<page, cachedElements, hung>>
  /\ UNCHANGED <<parseVars, reportVars, esVars>>

\* The network never answers a lookup: no timeout ends the fetch.
Hang(e) ==
  /\ Awaiting(e)
  /\ hung' = [hung EXCEPT ![e] = TRUE]
  /\ UNCHANGED <<page, cachedElements, innerHTML, dataSetDetails, pc, locals, held,
                 settled, wrapper, initPromise, requests, received, writes, writer,
                 caught>>
  /\ UNCHANGED <<parseVars, reportVars, esVars>>

\* The content an element has before any report is written to it.
InitialContent == <<"-">>
NoBody == <<>>

PageInit ==
  /\ page \in [Elems -> ElementKinds]
  /\ cachedElements = {}
  /\ innerHTML = [e \in Elems |-> InitialContent]
  /\ dataSetDetails = [e \in Elems |-> FALSE]
  /\ pc = [e \in Elems |-> "idle"]
  /\ locals = [e \in Elems |-> NoLocals]
  /\ held = [e \in Elems |-> NoBody]
  /\ settled = [e \in Elems |-> Pending]
  /\ wrapper = [e \in Elems |-> "none"]
  /\ initPromise = "none"
  /\ requests = [e \in Elems |-> 0]
  /\ received = [e \in Elems |-> NoResult]
  /\ hung = [e \in Elems |-> FALSE]
  /\ writes = [e \in Elems |-> 0]
  /\ writer = [e \in Elems |-> 0]
  /\ caught = [e \in Elems |-> FALSE]

\* The variables of the page while parse or getReport is checked on its own.
PageOff ==
  /\ page = [e \in Elems |-> Element(Div, <<>>, <<>>, Undef)]
  /\ cachedElements = {}
  /\ innerHTML = [e \in Elems |-> InitialContent]
  /\ dataSetDetails = [e \in Elems |-> FALSE]
  /\ pc = [e \in Elems |-> "idle"]
  /\ locals = [e \in Elems |-> NoLocals]
  /\ held = [e \in Elems |-> NoBody]
  /\ settled = [e \in Elems |-> Pending]
  /\ wrapper = [e \in Elems |-> "none"]
  /\ initPromise = "none"
  /\ requests = [e \in Elems |-> 0]
  /\ received = [e \in Elems |-> NoResult]
  /\ hung = [e \in Elems |-> FALSE]
  /\ writes = [e \in Elems |-> 0]
  /\ writer = [e \in Elems |-> 0]
  /\ caught = [e \in Elems |-> FALSE]

ParseOff ==
  /\ attrFields = [p |-> <<>>, t |-> <<>>, s |-> <<>>, f |-> <<>>, n |-> 1]
  /\ parsedComma = NotRun
  /\ parsedBrace = NotRun

ReportOff ==
  /\ template = <<>>
  /\ metadata = NoData
  /\ descriptor = NotRun
  /\ report = NotRendered

\* The options of a call of main: each is a value, undefined when not given.
Options(packageName, target, source, format, str) ==
  [packageName |-> packageName, target |-> target, source |-> source,
   format |-> format, str |-> str]

\* The promise main returned: pending, fulfilled with a report, a metadata
\* record or nothing, or rejected with an error.
MainPending == [state |-> "pending", kind |-> "none", s |-> <<>>, error |-> ""]
MainFulfilled(kind, s) == [state |-> "fulfilled", kind |-> kind, s |-> s, error |-> ""]
MainRejected(err) == [state |-> "rejected", kind |-> "none", s |-> <<>>, error |-> err]
NotCalled == [state |-> "none", kind |-> "none", s |-> <<>>, error |-> ""]

\* The variables of the ES module while no call of main is checked.
EsOff ==
  /\ options = Options(Undef, Undef, Undef, Undef, FALSE)
  /\ esPc = "idle"
  /\ esLocals = NoLocals
  /\ mainPromise = NotCalled
  /\ appended = FALSE
  /\ esRequests = 0
  /\ esHeld = NoBody

(***************************************************************************)
(* The page: init on DOMContentLoaded, then the responses in any order     *)
(***************************************************************************)
Init == PageInit /\ ParseOff /\ ReportOff /\ EsOff

Next ==
  \/ DOMContentLoaded
  \/ \E e \in Elems : Respond(e)
  \/ \E e \in Elems : RespondRelease(e)
  \/ \E e \in Elems : RespondRepo(e)
  \/ \E e \in Elems : Hang(e)

Spec == Init /\ [][Next]_vars

\* A task of the event loop after init has run: a response that arrived.
Deliver == \E e \in Elems : Respond(e) \/ RespondRelease(e) \/ RespondRepo(e)

\* The event loop runs a task whenever there is one.
FairSpec == Spec /\ WF_vars(Deliver)

(***************************************************************************)
(* src/index.js: parseAttribute, processElement and init                   *)
(***************************************************************************)
\* parseAttribute: three comma fields, the package required.
parseAttribute(attrValue) ==
  LET fields == split(attrValue.s, ",")
      pkg == Field(fields, 1)
  IN IF ~Truthy(pkg) THEN Thrown(PackageRequired)
     ELSE Descriptor(pkg, Field(fields, 2), OrElse(Field(fields, 3), NpmSource),
                     Undef)

\* document.querySelector(sel): the first match in document order, if any.
querySelector(sel) ==
  LET all == querySelectorAll(sel)
  IN IF all = {} THEN {} ELSE {CHOOSE e \in all : \A o \in all : e <= o}

\* processElement's elTarget, as a set of at most one element.
elTarget(e, d) ==
  IF page[e].tagName /= Script /\ ~Truthy(d.target) THEN {e}
  ELSE IF Truthy(d.target) THEN querySelector(d.target.s)
  ELSE querySelector(DefaultSelector)

TargetAbsent == "Target element is absent"
ErrorFetchingVersion ==
  <<"E", "r", "r", "o", "r", " ", "f", "e", "t", "c", "h", "i", "n", "g", " ",
    "v", "e", "r", "s", "i", "o", "n">>
\* `Unsupported source: ${source}`
UnsupportedMessage(source) ==
  <<"U", "n", "s", "u", "p", "p", "o", "r", "t", "e", "d", " ", "s", "o", "u",
    "r", "c", "e", ":", " ">> \o source

\* The adapters of src/index.js, from the response on: the version, or the
\* text their catch returns.
indexVersion(adapter, resp) ==
  IF resp.status /= "ok" THEN ErrorFetchingVersion
  ELSE IF adapter = "githubRelease" THEN StripV(resp.body.tag_name.s)
  ELSE ToStr(resp.body.version)

\* processElement up to its first suspension.
processElement(e) ==
  LET d == parseAttribute(page[e].attr)
      ts == elTarget(e, d)
  IN IF d.kind = "throw" THEN Pipeline("done", Rejected(d.msg), NoLocals)
     ELSE IF ts = {} THEN Pipeline("done", Rejected(TargetAbsent), Locals(d, ts))
     ELSE IF getData(d.source.s) = "unsupported"
     THEN Pipeline("done", Fulfilled(Unsupported), Locals(d, ts))
     ELSE Pipeline(getData(d.source.s), Pending, Locals(d, ts))

\* The elements whose processElement caught the unsupported-source error
\* and wrote its message to t, in the listener's synchronous part.
MessageWriters(start, t) ==
  {e \in withGetDetails :
     start[e].promise = Fulfilled(Unsupported) /\ t \in start[e].locals.elTargets}

Last(S) == CHOOSE e \in S : \A o \in S : o <= e

\* The DOMContentLoaded listener of src/index.js: init to its await. The
\* promises of processElement go to Promise.all as they are.
IndexDOMContentLoaded ==
  /\ initPromise = "none"
  /\ cachedElements' = withGetDetails
  /\ LET start == [e \in Elems |->
                     IF e \in withGetDetails THEN processElement(e)
                     ELSE Pipeline("idle", Pending, NoLocals)]
     IN /\ Launch(start, [e \in Elems |->
                            IF e \in withGetDetails THEN start[e].promise.state
                            ELSE "none"])
        /\ innerHTML' =
             [t \in Elems |->
                IF MessageWriters(start, t) = {} THEN innerHTML[t]
                ELSE UnsupportedMessage(
                       start[Last(MessageWriters(start, t))].locals.d.source.s)]
        /\ writes' = [t \in Elems |-> Cardinality(MessageWriters(start, t))]
        /\ writer' =
             [t \in Elems |->
                IF MessageWriters(start, t) = {} THEN 0
                ELSE Last(MessageWriters(start, t))]
  /\ UNCHANGED <<page, dataSetDetails, held, received, hung, caught>>
  /\ UNCHANGED <<parseVars, reportVars, esVars>>

\* The response to an adapter's lookup arrives: processElement assigns the
\* version, or the adapter's error text, to its target.
IndexRespond(e) ==
  /\ Awaiting(e)
  /\ \E resp \in Failures \cup {NullBody} \cup
                 {Ok(b) : b \in CASE pc[e] = "npm" -> NpmBodies(locals[e].d.pkg.s)
                                  [] pc[e] = "pypi" -> PyPIBodies(locals[e].d.pkg.s)
                                  [] OTHER -> ReleaseBodies(locals[e].d.pkg.s)} :
       /\ innerHTML' = [t \in Elems |->
                          IF t \in locals[e].elTargets THEN indexVersion(pc[e], resp)
                          ELSE innerHTML[t]]
       /\ caught' = [caught EXCEPT ![e] = resp.status /= "ok"]
       /\ received' =
            [received EXCEPT
               ![e] = Data([NoData EXCEPT !.version = Str(indexVersion(pc[e], resp))])]
  /\ writes' = [t \in Elems |->
                  IF t \in locals[e].elTargets THEN writes[t] + 1 ELSE writes[t]]
  /\ writer' = [t \in Elems |-> IF t \in locals[e].elTargets THEN e ELSE writer[t]]
  /\ pc' = [pc EXCEPT ![e] = "done"]
  /\ settled' = [settled EXCEPT ![e] = Fulfilled("")]
  /\ wrapper' = [wrapper EXCEPT ![e] = "fulfilled"]
  /\ initPromise' =
       IF initPromise = "rejected" THEN "rejected"
       ELSE PromiseAll([wrapper EXCEPT ![e] = "fulfilled"], cachedElements)
  /\ UNCHANGED <<page, cachedElements, dataSetDetails, locals, held, requests, hung>>
  /\ UNCHANGED <<parseVars, reportVars, esVars>>

IndexNext ==
  \/ IndexDOMContentLoaded
  \/ \E e \in Elems : IndexRespond(e)
  \/ \E e \in Elems : Hang(e)

IndexSpec == Init /\ [][IndexNext]_vars

(***************************************************************************)
(* src/es.js: parse, the adapters, action and main                         *)
(***************************************************************************)
GitlabName == <<"g", "i", "t", "l", "a", "b">>
PackageNameRequired == "Package name is required"

\* parse of src/es.js: without a brace segment the fourth comma field is the
\* format.
esParse(attrValue) ==
  LET braces == formatMatch(attrValue.s)
      fields == split(IF braces
                      THEN trim(SubSeq(attrValue.s, 1, OpenBrace(attrValue.s) - 1))
                      ELSE attrValue.s, ",")
      pkg == Field(fields, 1)
      format == IF braces THEN Str(trim(formatGroup(attrValue.s)))
                ELSE Field(fields, 4)
  IN IF ~Truthy(pkg) THEN Thrown(PackageRequired)
     ELSE Descriptor(pkg, Field(fields, 2), OrElse(Field(fields, 3), NpmSource),
                     format)

\* main's parameter defaults: source = 'npm' and format = '' when undefined
\* (target = null stays falsy).
Defaults(o) ==
  Options(o.packageName, o.target,
          IF o.source.t = "undef" THEN NpmSource ELSE o.source,
          IF o.format.t = "undef" THEN Empty ELSE o.format, o.str)

\* action's elAttr for direct parameters:
\* [packageName, target || '', source || '', format || ''].join(',')
Join(o) ==
  o.packageName.s \o <<",">> \o OrElse(o.target, Empty).s \o <<",">>
    \o OrElse(o.source, Empty).s \o <<",">> \o OrElse(o.format, Empty).s

\* getData of src/es.js: the switch has a gitlab case as well.
esGetData(source) ==
  IF toLowerCase(source) = GitlabName THEN "gitlabRelease" ELSE getData(source)

\* The states of a call suspended at a fetch that ends its adapter.
EsLastFetch == {"npm", "pypi", "githubRelease", "gitlabRepo"}

\* The adapters of src/es.js, from their last response on. The catch of the
\* npm, PyPI and GitHub adapters returns {}, that of the GitLab adapter
\* undefined; the GitHub adapter makes the release lookup only.
esAdapter(adapter, release, resp) ==
  CASE adapter = "npm" ->
         IF resp.status /= "ok" THEN Data(NoData) ELSE fetchNpmData(resp)
    [] adapter = "pypi" ->
         IF resp.status /= "ok" THEN Data(NoData) ELSE fetchPyPIData(resp)
    [] adapter = "githubRelease" ->
         IF resp.status /= "ok" THEN Data(NoData)
         ELSE Data([NoData EXCEPT
                 !.version = Str(StripV(resp.body.tag_name.s)),
                 !.name = Empty,
                 !.releaseNotes = OrElse(resp.body.body, Empty)])
    [] OTHER ->
         IF resp.status /= "ok" THEN NoResult
         ELSE Data([NoData EXCEPT
                 !.version = Str(StripV(release.tag_name.s)),
                 !.name = resp.body.name,
                 !.description = OrElse(resp.body.description, Empty),
                 !.owner = resp.body.owner_login,
                 !.stars = resp.body.stargazers_count,
                 !.forks = resp.body.forks_count,
                 !.homepage = Empty,
                 !.license = OrElse(resp.body.license_name, Empty),
                 !.lastUpdate = toLocaleDateString(resp.body.updated_at),
                 !.language = OrElse(resp.body.language, Empty),
                 !.releaseDate = toLocaleDateString(release.published_at),
                 !.releaseNotes = OrElse(release.body, Empty)])

\* A main that takes the document path whatever str is.
neverDataOnly(o) == FALSE

\* if (str) in main and if (params.str) in action.
returnDataOnly(o) == o.str

\* What stands for main in writer: no element of the page.
MainWriter == NumEls + 1

\* The call ends: main's promise settles, and elTmp is in the document or not.
EsEnd(promise, inDocument) ==
  /\ mainPromise' = promise
  /\ appended' = inDocument
  /\ esPc' = "done"

\* action's elTargets in src/es.js: the selector's matches, the default
\* selector's without a target.
esTargets(d) ==
  IF Truthy(d.target) THEN querySelectorAll(d.target.s)
  ELSE querySelectorAll(DefaultSelector)

\* main is called: main and action up to the first await.
EsMain ==
  /\ mainPromise = NotCalled
  /\ LET o == Defaults(options)
         d == esParse(Str(Join(o)))
     IN IF ~Truthy(o.packageName)
        THEN /\ EsEnd(MainRejected(PackageNameRequired), FALSE)
             /\ UNCHANGED <<esLocals, esRequests>>
        ELSE IF d.kind = "throw"
        THEN /\ EsEnd(MainRejected(d.msg), ~returnDataOnly(o))
             /\ UNCHANGED <<esLocals, esRequests>>
        ELSE IF returnDataOnly(o)
        THEN /\ esLocals' = Locals(d, {})
             /\ IF esGetData(d.source.s) = "unsupported"
                THEN EsEnd(MainRejected(Unsupported), FALSE) /\ UNCHANGED esRequests
                ELSE /\ esPc' = esGetData(d.source.s)
                     /\ esRequests' = 1
                     /\ mainPromise' = MainPending
                     /\ appended' = FALSE
        ELSE /\ esLocals' = Locals(d, esTargets(d))
             /\ IF esTargets(d) = {} \/ esGetData(d.source.s) = "unsupported"
                THEN EsEnd(MainFulfilled("void", <<>>), FALSE) /\ UNCHANGED esRequests
                ELSE /\ esPc' = esGetData(d.source.s)
                     /\ esRequests' = 1
                     /\ mainPromise' = MainPending
                     /\ appended' = TRUE
  /\ UNCHANGED <<options, esHeld, pageVars, parseVars, reportVars>>

\* action and main from the adapter's result on.
EsFinish(data) ==
  LET format == esLocals.d.format
      rep == getReport(data, format)
      ts == IF rep.kind = "throw" THEN {}
            ELSE {t \in esLocals.elTargets : ~dataSetDetails[t]}
  IN IF returnDataOnly(options)
     THEN /\ IF ~Truthy(format)
             THEN EsEnd(MainFulfilled("data", ToStr(OrElse(data.d.version, Empty))),
                        appended)
             ELSE IF rep.kind = "throw"
             THEN EsEnd(MainRejected(DataUndefined), appended)
             ELSE EsEnd(MainFulfilled("report", rep.s), appended)
          /\ UNCHANGED <<innerHTML, dataSetDetails, writes, writer>>
     ELSE /\ innerHTML' = [t \in Elems |-> IF t \in ts THEN rep.s ELSE innerHTML[t]]
          /\ dataSetDetails' = [t \in Elems |-> t \in ts \/ dataSetDetails[t]]
          /\ writes' = [t \in Elems |-> IF t \in ts THEN writes[t] + 1 ELSE writes[t]]
          /\ writer' = [t \in Elems |-> IF t \in ts THEN MainWriter ELSE writer[t]]
          /\ EsEnd(MainFulfilled("void", <<>>), FALSE)

\* The response to an adapter's last lookup arrives.
EsRespond ==
  /\ esPc \in EsLastFetch
  /\ \E resp \in Failures \cup {NullBody} \cup
                 {Ok(b) : b \in CASE esPc = "npm" -> NpmBodies(esLocals.d.pkg.s)
                                  [] esPc = "pypi" -> PyPIBodies(esLocals.d.pkg.s)
                                  [] esPc = "githubRelease" ->
                                       ReleaseBodies(esLocals.d.pkg.s)
                                  [] OTHER -> RepoBodies(esLocals.d.pkg.s)} :
       EsFinish(esAdapter(esPc, esHeld, resp))
  /\ UNCHANGED <<options, esLocals, esRequests, esHeld>>
  /\ UNCHANGED <<page, cachedElements, pc, locals, held, settled, wrapper,
                 initPromise, requests, received, hung, caught>>
  /\ UNCHANGED <<parseVars, reportVars>>

\* The response to fetchGitLabData's release lookup arrives: with a success
\* status and a list for a body the project lookup is issued; otherwise the
\* catch makes the adapter return undefined.
EsRespondRelease ==
  /\ esPc = "gitlabRelease"
  /\ \E resp \in Failures \cup {NullBody} \cup
                 {Ok(b) : b \in ReleaseBodies(esLocals.d.pkg.s)} :
       IF resp.status = "ok"
       THEN /\ esHeld' = resp.body
            /\ esPc' = "gitlabRepo"
            /\ esRequests' = esRequests + 1
            /\ UNCHANGED <<mainPromise, appended, innerHTML, dataSetDetails,
                           writes, writer>>
       ELSE EsFinish(NoResult) /\ UNCHANGED <<esHeld, esRequests>>
  /\ UNCHANGED <<options, esLocals>>
  /\ UNCHANGED <<page, cachedElements, pc, locals, held, settled, wrapper,
                 initPromise, requests, received, hung, caught>>
  /\ UNCHANGED <<parseVars, reportVars>>

\* The elements of the pages main is called on.
EsKinds ==
  {Element(Div, <<>>, <<>>, Str(<<"p">>)),
   Element(Div, <<"s">>, <<>>, Undef),
   Element(<<"P">>, <<>>, CurrentVersionClass, Undef)}

\* The options main is called with; all undefined for getDetails().
OptionSet ==
  {Options(pn, tg, src, fmt, str) :
     pn \in {Undef, Str(<<"p">>), Str(<<" ">>)},
     tg \in {Undef, Str(<<"#", "s">>)},
     src \in {Undef, Str(PypiName), Str(GithubName), Str(GitlabName), Str(SvnName)},
     fmt \in {Undef, Str(KeyVersion), Str(<<" ">>),
              Str(<<"{">> \o KeyName \o <<" ">> \o KeyVersion \o <<"}">>)},
     str \in BOOLEAN}

EsInit ==
  /\ PageInit
  /\ \A e \in Elems : page[e] \in EsKinds
  /\ options \in OptionSet
  /\ esPc = "idle"
  /\ esLocals = NoLocals
  /\ mainPromise = NotCalled
  /\ appended = FALSE
  /\ esRequests = 0
  /\ esHeld = NoBody
  /\ ParseOff
  /\ ReportOff

EsNext == EsMain \/ EsRespond \/ EsRespondRelease

EsSpec == EsInit /\ [][EsNext]_vars

(***************************************************************************)
(* parse on its own                                                        *)
(***************************************************************************)
ParseInit ==
  /\ attrFields \in [p : PackageFields, t : TargetFields, s : SourceFields,
                     f : FormatFields, n : 1..MaxFields]
  /\ parsedComma = NotRun
  /\ parsedBrace = NotRun
  /\ ReportOff
  /\ PageOff
  /\ EsOff

\* parse on the comma form 'p,t,s,f' cut to its first n fields.
ParseComma ==
  /\ parsedComma = NotRun
  /\ parsedComma' = parse(Str(CommaForm(attrFields)))
  /\ UNCHANGED <<attrFields, parsedBrace, reportVars, pageVars, esVars>>

\* parse on the brace form 'p,t,s,{f}'.
ParseBrace ==
  /\ parsedBrace = NotRun
  /\ parsedBrace' = parse(Str(BraceForm(attrFields)))
  /\ UNCHANGED <<attrFields, parsedComma, reportVars, pageVars, esVars>>

ParseNext == ParseComma \/ ParseBrace

ParseSpec == ParseInit /\ [][ParseNext]_vars

(***************************************************************************)
(* parse, then getReport                                                   *)
(***************************************************************************)
\* The attribute that carries a template: 'flask,,pypi,{<template>}'.
TemplateAttr(tpl) ==
  BraceForm([p |-> FlaskName, t |-> <<>>, s |-> PypiName, f |-> Concat(tpl)])

ReportInit ==
  /\ template \in Templates
  /\ metadata \in DataSet
  /\ descriptor = NotRun
  /\ report = NotRendered
  /\ ParseOff
  /\ PageOff
  /\ EsOff

\* action's call of parse on the attribute.
ParseAttr ==
  /\ descriptor = NotRun
  /\ descriptor' = parse(Str(TemplateAttr(template)))
  /\ UNCHANGED <<template, metadata, report, parseVars, pageVars, esVars>>

\* action's call of getReport on the adapter's record and the parsed format.
Render ==
  /\ descriptor.kind = "descriptor"
  /\ report = NotRendered
  /\ report' = getReport(Data(metadata), descriptor.format)
  /\ UNCHANGED <<template, metadata, descriptor, parseVars, pageVars, esVars>>

ReportNext == ParseAttr \/ Render

ReportSpec == ReportInit /\ [][ReportNext]_vars
(***************************************************************************)
(* Properties of the page                                                  *)
(***************************************************************************)
\* The pipeline of e ended with a metadata record in hand.
Reported(e) == pc[e] = "done" /\ received[e].defined
\* The pipeline of e ended because its lookup failed.
LookupFailed(e) == pc[e] = "done" /\ settled[e].error = DataUndefined

\* C1: whatever the elements and the order of the responses, each element's
\* content is assigned at most once, and an element that was assigned
\* carries the mark: a pipeline that finds the mark writes nothing.
C1_WrittenAtMostOnce ==
  \A t \in Elems : writes[t] <= 1 /\ (writes[t] = 1 <=> dataSetDetails[t])

\* Two pipelines with the same target both ended with a report, and the
\* target was written once.
C1_Witness ==
  \E t \in Elems : \E e1, e2 \in Elems :
    /\ e1 /= e2
    /\ Reported(e1) /\ Reported(e2)
    /\ t \in locals[e1].elTargets \cap locals[e2].elTargets
    /\ writes[t] = 1

\* C2: the promise of init never rejects, and once init has run it is
\* resolved exactly when every cached element's pipeline has settled.
C2_InitNeverRejects ==
  /\ initPromise /= "rejected"
  /\ initPromise /= "none" =>
       (initPromise = "resolved" <=>
          \A e \in cachedElements : settled[e].state /= "pending")

\* init resolved although one element's action rejected and another
\* element's lookup failed.
C2_Witness ==
  /\ initPromise = "resolved"
  /\ \E e \in Elems : settled[e].state = "rejected"
  /\ \E e \in Elems : LookupFailed(e)

\* Every pipeline has been started: no element with the attribute is idle.
AllStarted == \A d \in Elems : page[d].attr.t = "str" => pc[d] /= "idle"

\* Every target of e carries a report.
TargetsMarked(e) == \A t \in locals[e].elTargets : dataSetDetails[t]

\* C3: no lookup is answered before every pipeline has been started, and
\* from some point on every element that issued a lookup has every one of
\* its targets marked, unless its own lookup failed or is never answered,
\* whatever happens to the lookups of the other elements.
C3_IsolatedProgress ==
  /\ [](\A e \in Elems : pc[e] \in {"githubRepo", "done"} => AllStarted)
  /\ <>[](\A e \in Elems :
            requests[e] >= 1 => hung[e] \/ LookupFailed(e) \/ TargetsMarked(e))

\* One element's lookup is never answered, and another element's pipeline
\* has ended with every target marked.
C3_Witness ==
  \E e1, e2 \in Elems :
    /\ hung[e1]
    /\ Reported(e2)
    /\ locals[e2].elTargets /= {}
    /\ TargetsMarked(e2)

\* The attribute of e holds a package name and nothing else, and e is not
\* a SCRIPT.
OnlyPackage(e) ==
  /\ page[e].tagName /= Script
  /\ page[e].attr.t = "str"
  /\ page[e].attr.s /= <<>>
  /\ \A i \in 1..Len(page[e].attr.s) : page[e].attr.s[i] \notin {",", "{", "}"}
  /\ trim(page[e].attr.s) /= <<>>

\* C4, as claimed: when the npm lookup of an element whose attribute is only
\* a package name returns version V, the element's content is V and the
\* pipeline has written to no other element.
C4_OwnContentIsVersion ==
  \A e \in Elems :
    (OnlyPackage(e) /\ Reported(e)) =>
      /\ innerHTML[e] = received[e].d.version.s
      /\ \A t \in Elems \ {e} : writer[t] /= e

\* C4, amended: the content is V unless the element carried the mark when
\* the lookup returned, another pipeline having written to it before; the
\* pipeline has written to no other element.
C4_OwnContentUnlessMarked ==
  \A e \in Elems :
    (OnlyPackage(e) /\ Reported(e)) =>
      /\ \/ writer[e] = e /\ innerHTML[e] = received[e].d.version.s
         \/ writer[e] \notin {0, e}
      /\ requests[e] = 1
      /\ \A t \in Elems \ {e} : writer[t] /= e

\* An element with only a package name has received its version.
C4_Witness ==
  \E e \in Elems :
    /\ OnlyPackage(e) /\ Reported(e)
    /\ writer[e] = e
    /\ innerHTML[e] = VersionOf(trim(page[e].attr.s))

SupportedSources == {<<"n", "p", "m">>, PypiName, GithubName}

\* The attribute of e parses and its source names no supported registry.
UnsupportedSource(e) ==
  /\ locals[e].d.kind = "descriptor"
  /\ toLowerCase(locals[e].d.source.s) \notin SupportedSources

C12_FailedLookupRenders ==
  \A e \in Elems :
    (pc[e] = "done" /\ caught[e]) =>
      /\ settled[e].error /= DataUndefined
      /\ \A t \in Elems : innerHTML[t] /= ToStr(Undef)

\* T without its first character when that is 'v'.
WithoutLeadingV(tag) ==
  IF Len(tag) >= 1 /\ tag[1] = "v" THEN SubSeq(tag, 2, Len(tag)) ELSE tag

\* The attribute of e names the source github and a target, and no format.
GithubToTarget(e) ==
  /\ locals[e].d.kind = "descriptor"
  /\ toLowerCase(locals[e].d.source.s) = GithubName
  /\ Truthy(locals[e].d.target)
  /\ ~Truthy(locals[e].d.format)

C17_MarkLifecycle ==
  /\ [](\A t \in Elems :
          /\ dataSetDetails[t] <=> (writer[t] /= 0 /\ received[writer[t]].defined)
          /\ dataSetDetails[t] <=> writes[t] = 1
          /\ ~dataSetDetails[t] => innerHTML[t] = InitialContent)
  /\ [][\A t \in Elems :
          dataSetDetails[t] => dataSetDetails'[t] /\ innerHTML'[t] = innerHTML[t]]_vars

\* A target marked by one pipeline was left alone by a pipeline whose
\* lookup failed and by one that received a record later.
C17_Witness ==
  \E t \in Elems : \E e1, e2 \in Elems :
    /\ e1 /= e2
    /\ t \in locals[e1].elTargets \cap locals[e2].elTargets
    /\ writer[t] = e1 /\ dataSetDetails[t]
    /\ pc[e2] = "done" /\ caught[e2]

\* The source of e is github.
GithubSource(e) ==
  locals[e].d.kind = "descriptor" /\ toLowerCase(locals[e].d.source.s) = GithubName

NoTargetsFor(e) == locals[e].d.kind = "descriptor" /\ locals[e].elTargets = {}

\* C19: when target resolution yields no element, action ends with the
\* no-target error, having issued no request and changed no element.
C19_NoTargetNoRequest ==
  \A e \in Elems :
    NoTargetsFor(e) =>
      /\ pc[e] = "done"
      /\ settled[e] = Rejected(NoTargets)
      /\ requests[e] = 0
      /\ \A t \in Elems : writer[t] /= e

\* A SCRIPT without a default target and an element whose selector matches
\* nothing ended with the no-target error.
C19_Witness ==
  /\ \E e \in Elems :
       NoTargetsFor(e) /\ page[e].tagName = Script /\ settled[e] = Rejected(NoTargets)
  /\ \E e \in Elems :
       NoTargetsFor(e) /\ Truthy(locals[e].d.target) /\ settled[e] = Rejected(NoTargets)

\* The report the pipeline of e renders from the record it received.
ReportOf(e) == getReport(received[e], locals[e].d.format).s

\* C20: the content of a target does not depend on the order in which the
\* lookups complete. Any pipeline can be the first to complete, and the
\* first one's report is what the target holds; so the content is the same
\* in every order exactly when it is the report of every completed pipeline
\* that resolves to the target.
C20_OrderIndependent ==
  \A t \in Elems : \A e \in Elems :
    (Reported(e) /\ t \in locals[e].elTargets) => innerHTML[t] = ReportOf(e)

(***************************************************************************)
(* Properties of src/index.js                                              *)
(***************************************************************************)
\* C16: a failure of one element's pipeline does not propagate: the promise
\* of init does not reject, it is resolved once every pipeline has ended,
\* and an element whose own lookup succeeded has its version in its target.
C16_IndexFailureContained ==
  /\ initPromise /= "rejected"
  /\ (initPromise /= "none" /\ \A e \in cachedElements : pc[e] = "done")
       => initPromise = "resolved"
  /\ \A e \in Elems :
       (pc[e] = "done" /\ received[e].defined /\ ~caught[e])
         => \A t \in locals[e].elTargets :
              writer[t] = e => innerHTML[t] = received[e].d.version.s

(***************************************************************************)
(* Properties of src/es.js                                                 *)
(***************************************************************************)
\* C22: when a call of main without str has settled, resolved or rejected,
\* elTmp is not in the document.
C22_TemporaryDivRemoved ==
  (~options.str /\ mainPromise.state \in {"fulfilled", "rejected"}) => ~appended

\* A format is given: the option holds more than white space and braces.
FormatGiven ==
  /\ options.format.t = "str"
  /\ \E i \in 1..Len(options.format.s) :
       options.format.s[i] \notin WhiteSpace \cup {"{", "}"}

C15_NoArgumentsWorks ==
  (options = Options(Undef, Undef, Undef, Undef, FALSE) /\ mainPromise /= NotCalled)
    => /\ mainPromise.state /= "rejected"
       /\ esPc = "done" =>
            \A e \in withGetDetails : \E t \in Elems : dataSetDetails[t]

(***************************************************************************)
(* Properties of parse                                                     *)
(***************************************************************************)
\* C5: for a non-empty package and a non-empty format free of commas and
\* braces, parse yields the same descriptor for 'p,t,s,f' and 'p,t,s,{f}'.
C5_CommaEqualsBrace ==
  ( /\ parsedComma /= NotRun
    /\ parsedBrace /= NotRun
    /\ attrFields.n = MaxFields
    /\ trim(attrFields.p) /= <<>>
    /\ trim(attrFields.f) /= <<>> )
  => parsedComma = parsedBrace

\* C6: parse throws the package-name-required error whenever the package
\* field is empty after trimming, and returns nothing.
C6_EmptyPackageThrows ==
  trim(attrFields.p) = <<>> =>
    /\ parsedComma /= NotRun => parsedComma = Thrown(PackageRequired)
    /\ parsedBrace /= NotRun => parsedBrace = Thrown(PackageRequired)

(***************************************************************************)
(* Properties of getReport                                                 *)
(***************************************************************************)
\* The value getReport substitutes for the placeholder key.
ValueOf(md, key) ==
  LET entries == variables(md)
  IN ToStr(entries[CHOOSE k \in 1..Len(entries) : entries[k][1] = key][2])

PlaceholderPieces == {KeyOwner, KeyLicense, KeyRequires, KeyStars, KeyVersion}

\* The placeholders that resolve to the empty string.
EmptyKeys(md) == {k \in PlaceholderPieces : ValueOf(md, k) = <<>>}

\* The template is made of placeholders that resolve to the empty string,
\* bare or in parentheses, of commas and of spaces.
OnlyEmptyPlaceholders(tpl, md) ==
  \/ tpl = TemplateCleanup /\ {KeyOwner, KeyRequires, KeyLicense} \subseteq EmptyKeys(md)
  \/ /\ \A k \in 1..Len(tpl) :
          tpl[k] \in {<<",">>, <<" ">>} \cup EmptyKeys(md)
                     \cup {<<"(">> \o key \o <<")">> : key \in EmptyKeys(md)}
     /\ \E k \in 1..Len(tpl) : tpl[k] \notin {<<",">>, <<" ">>}

\* C8: a template of placeholders that resolve to empty strings, commas,
\* spaces and parentheses around the placeholders renders as the empty string.
C8_CleanupLaw ==
  (report /= NotRendered /\ OnlyEmptyPlaceholders(template, metadata))
  => report = Report(<<>>)

\* C9: 'flask,,pypi,{%name %version (%license)}' parses to package flask,
\* no target, source pypi and that format, and the format renders against
\* name flask, version 2.3.0 and an empty license as 'flask 2.3.0'.
C9_ScenarioC ==
  (template = TemplateC /\ metadata = DataC /\ report /= NotRendered)
  => /\ descriptor = Descriptor(Str(FlaskName), Empty, Str(PypiName),
                                Str(Concat(TemplateC)))
     /\ report = Report(FlaskName \o <<" ">> \o Version230)

\* C10: a count that is the number 0 is rendered as the digit 0.
C10_ZeroCountIsDigit ==
  (report /= NotRendered /\ metadata = DataZero)
  => /\ template = <<KeyStars>> => report = Report(<<"0">>)
     /\ template = TemplateCounts => report = Report(<<"0", "/", "0", "/", "0">>)

\* The characters that continue a token after its '%'.
TokenChars ==
  {LowerCase[i] : i \in 1..26} \cup {UpperCase[i] : i \in 1..26} \cup {"-"}

\* The %-prefixed tokens of s: each '%' with the letters and hyphens after it.
Tokens(s) ==
  {SubSeq(s, i, RunEnd(s, i + 1, TokenChars)) : i \in {j \in 1..Len(s) : s[j] = "%"}}

\* The 19 recognized placeholders.
Recognized == {variables(NoData)[k][1] : k \in 1..Len(variables(NoData))}

\* sub occurs in s.
Contains(s, sub) ==
  \E i \in 1..(Len(s) - Len(sub) + 1) : SubSeq(s, i, i + Len(sub) - 1) = sub

\* C11: every %-prefixed token of the template that is not a recognized
\* placeholder occurs unchanged in the report, also when it begins with the
\* name of a recognized placeholder.
C11_UnknownTokensVerbatim ==
  report.kind = "string" =>
    \A tok \in Tokens(Concat(template)) :
      toLowerCase(tok) \notin Recognized => Contains(report.s, tok)

\* C11 for the tokens that no placeholder's name begins: these do occur
\* unchanged.
C11_ForeignTokensVerbatim ==
  report.kind = "string" =>
    \A tok \in Tokens(Concat(template)) :
      (\A key \in Recognized : ~MatchAt(tok, 1, key)) => Contains(report.s, tok)

\* The placeholder that matches s at position i, as a set of at most one
\* index of entries.
KeysAt(s, i, entries) == {k \in 1..Len(entries) : MatchAt(s, i, entries[k][1])}

\* Substitution in one pass over the template: each placeholder of the
\* template gives way to its value, and inserted text is not looked at again.
RECURSIVE SinglePass(_, _, _)
SinglePass(s, i, entries) ==
  IF i > Len(s) THEN <<>>
  ELSE IF KeysAt(s, i, entries) /= {}
  THEN LET k == CHOOSE j \in KeysAt(s, i, entries) : TRUE
       IN ToStr(entries[k][2]) \o SinglePass(s, i + Len(entries[k][1]), entries)
  ELSE <<s[i]>> \o SinglePass(s, i + 1, entries)

\* C21: the report is the template with each of its placeholders replaced
\* once by its value, then cleaned up: a value that holds the text of a
\* placeholder appears as that text.
C21_SinglePass ==
  (report.kind = "string" /\ Truthy(descriptor.format)) =>
    report.s = Cleanup(SinglePass(descriptor.format.s, 1, variables(metadata)))

=============================================================================
